---- MODULE Spec2Model ----
(***************************************************************************)
(* Model of solid-allotment: the Allotment component (the glue between a   *)
(* reactive child list and the split-view engine) and the PaneView class   *)
(* with its preferred-size layout strategies.                              *)
(*                                                                         *)
(* Numbers.  A JavaScript number is a record [t, v]: t = "number" with v   *)
(* the value in HUNDREDTHS (the whole number k is v = 100 * k, so that the *)
(* code's divisions by 100 are exact), t = "nan" for NaN, t = "infinity"   *)
(* for Number.POSITIVE_INFINITY.  undefined is t = "undefined" and a       *)
(* string is t = "string" with its characters in s.                        *)
(***************************************************************************)
EXTENDS Integers, Sequences, FiniteSets, TLC

\* ------------------------------------------------------------------ bounds

\* Longest declared preferred-size string that is enumerated.
MaxLen == 3

\* Number of distinct child elements the host can render.
MaxNodes == 2

\* Sash sizes passed to setSashSize range over -MaxSashSize..MaxSashSize.
MaxSashSize == 24

\* The reordering loop is run on lists of up to MaxMoveNodes children.
MaxMoveNodes == 4

\* ------------------------------------------------------- JavaScript values

Num(k) == [t |-> "number", v |-> 100 * k, s |-> <<>>]
Hundredths(h) == [t |-> "number", v |-> h, s |-> <<>>]
NaN == [t |-> "nan", v |-> 0, s |-> <<>>]
POSITIVE_INFINITY == [t |-> "infinity", v |-> 0, s |-> <<>>]
Undefined == [t |-> "undefined", v |-> 0, s |-> <<>>]
Str(chars) == [t |-> "string", v |-> 0, s |-> chars]

\* typeof x
TypeOf(x) == IF x.t \in {"number", "nan", "infinity"} THEN "number" ELSE x.t

\* x / 100 on numbers
Div100(x) ==
  IF x.t = "number" THEN Hundredths(x.v \div 100) ELSE x

\* a * b on numbers, b a whole number
Times(a, b) ==
  IF a.t = "nan" \/ b.t = "nan" THEN NaN
  ELSE IF a.t = "infinity" \/ b.t = "infinity" THEN
    (IF (a.t = "number" /\ a.v = 0) \/ (b.t = "number" /\ b.v = 0) THEN NaN
     ELSE POSITIVE_INFINITY)
  ELSE Hundredths((a.v * b.v) \div 100)

\* Math.round(x): the nearest whole number, halves rounded up
MathRound(x) ==
  IF x.t = "number" THEN Hundredths(((x.v + 50) \div 100) * 100) ELSE x

\* a <= b on numbers (false when either is NaN)
NumLeq(a, b) ==
  /\ a.t # "nan" /\ b.t # "nan"
  /\ \/ b.t = "infinity"
     \/ (a.t = "number" /\ b.t = "number" /\ a.v <= b.v)

\* ------------------------------------------------------------------ strings

Digits == {"0", "1", "2", "3", "4", "5", "6", "7", "8", "9"}

DigitValue(c) ==
  CASE c = "0" -> 0 [] c = "1" -> 1 [] c = "2" -> 2 [] c = "3" -> 3
    [] c = "4" -> 4 [] c = "5" -> 5 [] c = "6" -> 6 [] c = "7" -> 7
    [] c = "8" -> 8 [] c = "9" -> 9

\* The characters declared strings are built from.
Chars == {"0", "5", "-", " ", "%", "p", "x"}

RECURSIVE StringsOfLen(_)
StringsOfLen(n) ==
  IF n = 0 THEN {<<>>}
  ELSE {Append(s, c) : s \in StringsOfLen(n - 1), c \in Chars}

Strings == UNION {StringsOfLen(n) : n \in 0..MaxLen}

\* String.prototype.trim
RECURSIVE trimStart(_)
trimStart(s) ==
  IF s # <<>> /\ s[1] = " " THEN trimStart(Tail(s)) ELSE s

RECURSIVE trimEnd(_)
trimEnd(s) ==
  IF s # <<>> /\ s[Len(s)] = " " THEN trimEnd(SubSeq(s, 1, Len(s) - 1)) ELSE s

trim(s) == trimEnd(trimStart(s))

\* helpers/string endsWith(haystack, needle)
endsWith(haystack, needle) ==
  /\ Len(haystack) >= Len(needle)
  /\ SubSeq(haystack, Len(haystack) - Len(needle) + 1, Len(haystack)) = needle

\* s.slice(0, -k)
sliceEnd(s, k) == SubSeq(s, 1, Len(s) - k)

\* The value of a run of decimal digits, base 10 or 16.
RECURSIVE DigitsValue(_, _)
DigitsValue(ds, base) ==
  IF ds = <<>> THEN 0
  ELSE base * DigitsValue(SubSeq(ds, 1, Len(ds) - 1), base) + DigitValue(ds[Len(ds)])

AllDigits(ds) == \A i \in DOMAIN ds : ds[i] \in Digits

\* Number(string): StringToNumber over the characters of Chars.  Surrounding
\* white space is ignored, the empty string is 0, "0x" starts a hexadecimal
\* literal (no sign allowed), an optional sign and decimal digits is a
\* decimal literal, everything else is NaN.
ToNumber(s) ==
  LET t == trim(s) IN
  IF t = <<>> THEN Num(0)
  ELSE IF Len(t) >= 3 /\ t[1] = "0" /\ t[2] = "x" /\ AllDigits(SubSeq(t, 3, Len(t)))
    THEN Num(DigitsValue(SubSeq(t, 3, Len(t)), 16))
  ELSE IF AllDigits(t) THEN Num(DigitsValue(t, 10))
  ELSE IF t[1] = "-" /\ Len(t) >= 2 /\ AllDigits(Tail(t))
    THEN Num(0 - DigitsValue(Tail(t), 10))
  ELSE NaN

\* The longest prefix of s made of decimal digits.
RECURSIVE DigitPrefix(_)
DigitPrefix(s) ==
  IF s # <<>> /\ s[1] \in Digits THEN <<s[1]>> \o DigitPrefix(Tail(s)) ELSE <<>>

\* Number.parseFloat(string): leading white space is skipped, then an
\* optional sign and the longest run of digits; NaN when there is no digit.
parseFloat(s) ==
  LET t == trimStart(s)
      neg == t # <<>> /\ t[1] = "-"
      body == IF neg THEN Tail(t) ELSE t
      ds == DigitPrefix(body)
  IN IF ds = <<>> THEN NaN
     ELSE IF neg THEN Num(0 - DigitsValue(ds, 10))
     ELSE Num(DigitsValue(ds, 10))

\* ------------------------------------------------------- layout strategies

\* class PixelLayout / ProportionLayout / NullLayout
PixelLayout(size) == [kind |-> "Pixel", p |-> size]
ProportionLayout(proportion) == [kind |-> "Proportion", p |-> proportion]
NullLayout == [kind |-> "Null", p |-> Undefined]

\* Mutant: the proportional strategy returns its fraction, not a share of
\* the container.
getPreferredSize_NoContainer(strategy, layoutServiceSize) ==
  CASE strategy.kind = "Pixel" -> strategy.p
    [] strategy.kind = "Proportion" -> strategy.p
    [] strategy.kind = "Null" -> Undefined

\* Layout.getPreferredSize(), layoutServiceSize being layoutService.getSize()
getPreferredSize(strategy, layoutServiceSize) ==
  CASE strategy.kind = "Pixel" -> strategy.p
    [] strategy.kind = "Proportion" -> Times(strategy.p, layoutServiceSize)
    [] strategy.kind = "Null" -> Undefined

\* ------------------------------------------------------------------ PaneView

True == [t |-> "boolean", v |-> 1, s |-> <<>>]
False == [t |-> "boolean", v |-> 0, s |-> <<>>]

\* minimumSize when the option is not a number (set minimumSize)
DefaultMinimumSize == 30

\* set minimumSize(minimumSize)
SetMinimumSize(view, minimumSize) ==
  [view EXCEPT !.minimumSize =
     IF TypeOf(minimumSize) = "number" THEN minimumSize ELSE Num(DefaultMinimumSize)]

\* set maximumSize(maximumSize)
SetMaximumSize(view, maximumSize) ==
  [view EXCEPT !.maximumSize =
     IF TypeOf(maximumSize) = "number" THEN maximumSize ELSE POSITIVE_INFINITY]

\* set priority(priority): priority ?? LayoutPriority.Normal
SetPriority(view, priority) ==
  [view EXCEPT !.priority = IF priority = "undefined" THEN "Normal" ELSE priority]

\* set snap(snap)
SetSnap(view, snap) ==
  [view EXCEPT !.snap = IF TypeOf(snap) = "boolean" THEN snap ELSE False]

\* Mutant: the setter takes the number before "px" as the pixels.
SetterLayoutStrategy_PxUndivided(preferredSize) ==
  IF TypeOf(preferredSize) = "number" THEN PixelLayout(preferredSize)
  ELSE IF TypeOf(preferredSize) = "string" THEN
    LET trimmedPreferredSize == trim(preferredSize.s) IN
    IF endsWith(trimmedPreferredSize, <<"%">>) THEN
      ProportionLayout(Div100(ToNumber(sliceEnd(trimmedPreferredSize, 1))))
    ELSE IF endsWith(trimmedPreferredSize, <<"p", "x">>) THEN
      PixelLayout(ToNumber(sliceEnd(trimmedPreferredSize, 2)))
    ELSE IF TypeOf(parseFloat(trimmedPreferredSize)) = "number" THEN
      PixelLayout(parseFloat(trimmedPreferredSize))
    ELSE NullLayout
  ELSE NullLayout

\* The strategy the preferredSize setter installs.
SetterLayoutStrategy(preferredSize) ==
  IF TypeOf(preferredSize) = "number" THEN PixelLayout(preferredSize)
  ELSE IF TypeOf(preferredSize) = "string" THEN
    LET trimmedPreferredSize == trim(preferredSize.s) IN
    IF endsWith(trimmedPreferredSize, <<"%">>) THEN
      ProportionLayout(Div100(ToNumber(sliceEnd(trimmedPreferredSize, 1))))
    ELSE IF endsWith(trimmedPreferredSize, <<"p", "x">>) THEN
      PixelLayout(Div100(ToNumber(sliceEnd(trimmedPreferredSize, 2))))
    ELSE IF TypeOf(parseFloat(trimmedPreferredSize)) = "number" THEN
      PixelLayout(parseFloat(trimmedPreferredSize))
    ELSE NullLayout
  ELSE NullLayout

\* set preferredSize(preferredSize)
SetPreferredSize(view, preferredSize) ==
  [view EXCEPT !.layoutStrategy = SetterLayoutStrategy(preferredSize)]

\* The strategy the constructor installs for options.preferredSize.
ConstructorLayoutStrategy(preferredSize) ==
  IF TypeOf(preferredSize) = "number" THEN PixelLayout(preferredSize)
  ELSE IF TypeOf(preferredSize) = "string" THEN
    LET trimmed == trim(preferredSize.s) IN
    IF endsWith(trimmed, <<"%">>) THEN
      ProportionLayout(Div100(ToNumber(sliceEnd(trimmed, 1))))
    ELSE IF endsWith(trimmed, <<"p", "x">>) THEN
      PixelLayout(Div100(ToNumber(sliceEnd(trimmed, 2))))
    ELSE IF TypeOf(parseFloat(trimmed)) = "number" THEN
      PixelLayout(parseFloat(trimmed))
    ELSE NullLayout
  ELSE NullLayout

\* Field initialisers of class PaneView.
PaneViewFields ==
  [minimumSize |-> Num(0), maximumSize |-> POSITIVE_INFINITY,
   priority |-> "undefined", snap |-> False, layoutStrategy |-> NullLayout]

\* PaneView options: a field that is left out is undefined.
PaneViewOptions(minimumSize, maximumSize, priority, preferredSize, snap) ==
  [minimumSize |-> minimumSize, maximumSize |-> maximumSize,
   priority |-> priority, preferredSize |-> preferredSize, snap |-> snap]

\* new PaneView(layoutService, options)
NewPaneView(options) ==
  LET v1 == SetMinimumSize(PaneViewFields, options.minimumSize)
      v2 == SetMaximumSize(v1, options.maximumSize)
      v3 == [v2 EXCEPT !.layoutStrategy =
               ConstructorLayoutStrategy(options.preferredSize)]
      v4 == SetPriority(v3, options.priority)
  IN SetSnap(v4, options.snap)

\* get preferredSize()
preferredSizeOf(view, layoutServiceSize) ==
  getPreferredSize(view.layoutStrategy, layoutServiceSize)

\* =========================================================================
\* The Allotment component
\* =========================================================================

\* --------------------------------------------------------- children and props

\* Child elements that are not Pane elements.
Nodes == 1..MaxNodes

\* A child rendered by <Allotment.Pane preferredSize={100}>: an element that
\* carries the data-pane attribute.
PaneElement == 0

\* The props each Pane element was declared with.
DeclaredPaneProps(item) ==
  [present |-> TRUE, minSize |-> Undefined, maxSize |-> Undefined,
   preferredSize |-> Num(100), priority |-> "undefined",
   visible |-> Undefined, snap |-> Undefined]

\* isPane(item): item.dataset['pane'] != null
isPane(item) == item = PaneElement

\* Array.prototype.includes on a sequence
includes(seq, x) == \E i \in DOMAIN seq : seq[i] = x

\* Sequences without repetition over a set, up to a length.
RECURSIVE ListsOver(_, _)
ListsOver(S, n) ==
  IF n = 0 THEN {<<>>}
  ELSE LET shorter == ListsOver(S, n - 1) IN
       shorter \cup {Append(l, x) : l \in {m \in shorter : Len(m) = n - 1}, x \in S}

NoRepeat(seq) == \A i, j \in DOMAIN seq : i # j => seq[i] # seq[j]

\* The child lists the host can render: distinct elements in any order, and
\* the same with the Pane element as the last child.
PlainChildLists == {l \in ListsOver(Nodes, MaxNodes) : NoRepeat(l)}

ChildLists ==
  PlainChildLists
    \cup {Append(l, PaneElement) : l \in {m \in PlainChildLists : Len(m) < MaxNodes}}

\* splitViewPropsRef.get(node): undefined when the node has no entry
NoProps ==
  [present |-> FALSE, minSize |-> Undefined, maxSize |-> Undefined,
   preferredSize |-> Undefined, priority |-> "undefined",
   visible |-> Undefined, snap |-> Undefined]

MapGet(map, node) == IF node \in DOMAIN map THEN map[node] ELSE NoProps

\* isPaneProps(props)
isPaneProps(svProps) ==
  \/ svProps.minSize # Undefined
  \/ svProps.maxSize # Undefined
  \/ svProps.preferredSize # Undefined
  \/ svProps.priority # "undefined"
  \/ svProps.visible # Undefined

\* a !== b (NaN differs from itself)
StrictNe(a, b) == a # b \/ a.t = "nan"

\* a ?? b
Nullish(a, b) == IF a = Undefined THEN b ELSE a

\* the truthiness of a value (as the left operand of &&)
Truthy(x) ==
  CASE x.t = "number" -> x.v # 0
    [] x.t = "infinity" -> TRUE
    [] x.t = "boolean" -> x.v = 1
    [] x.t = "string" -> x.s # <<>>
    [] OTHER -> FALSE

\* The options both call sites pass to new PaneView (lines 195-204, 290-299).
GluePaneViewOptions(svProps, props) ==
  PaneViewOptions(
    Nullish(svProps.minSize, props.minSize),
    Nullish(svProps.maxSize, props.maxSize),
    IF svProps.priority = "undefined" THEN "Normal" ELSE svProps.priority,
    IF Truthy(svProps.preferredSize) THEN svProps.preferredSize ELSE Undefined,
    Nullish(svProps.snap, props.snap))

\* Array.prototype.findIndex(x => x === node): zero-based, -1 when absent
findIndex(seq, node) ==
  IF includes(seq, node)
    THEN (CHOOSE i \in DOMAIN seq : seq[i] = node /\ \A j \in 1..(i - 1) : seq[j] # node) - 1
    ELSE -1

\* seq.splice(index, 1) for index >= 0
SpliceOut(seq, index) ==
  IF index + 1 \in DOMAIN seq
    THEN SubSeq(seq, 1, index) \o SubSeq(seq, index + 2, Len(seq))
    ELSE seq

\* seq.splice(index, 0, x) for index >= 0
SpliceIn(seq, index, x) ==
  IF index >= Len(seq) THEN Append(seq, x)
  ELSE SubSeq(seq, 1, index) \o <<x>> \o SubSeq(seq, index + 1, Len(seq))

\* -------------------------------------------------------- the SplitView engine
\* The engine is a sequence of items, each the container element of a pane
\* (named by the child node it wraps), the PaneView it was given (an object
\* identity) and the pane's visibility.

EngineItem(container, view) == [container |-> container, view |-> view, visible |-> TRUE]

\* SplitView.addView(container, view, Sizing.Distribute, index)
EngineAddView(items, container, view, index) ==
  IF index \in 0..Len(items) THEN SpliceIn(items, index, EngineItem(container, view))
  ELSE items

\* SplitView.removeView(index)
EngineRemoveView(items, index) == SpliceOut(items, index)

\* SplitView.moveView(container, from, to)
EngineMoveView(items, from, to) ==
  IF from \in 0..(Len(items) - 1) /\ to \in 0..(Len(items) - 1)
    THEN SpliceIn(SpliceOut(items, from), to, items[from + 1])
    ELSE items

\* SplitView.isViewVisible(index)
EngineIsViewVisible(items, index) ==
  IF index + 1 \in DOMAIN items THEN items[index + 1].visible ELSE FALSE

\* SplitView.setViewVisible(index, visible): a no-op on a pane without snap
EngineSetViewVisible(items, index, visible, snap) ==
  IF index + 1 \in DOMAIN items /\ snap
    THEN [items EXCEPT ![index + 1].visible = visible]
    ELSE items

\* One call the glue made on the engine: the operation, its index arguments,
\* its size argument and the number of panes the engine held at the call.
Call(op, index, to, size, len) ==
  [op |-> op, index |-> index, to |-> to, size |-> size, len |-> len]

\* ------------------------------------------------------ the reconciliation pass
\* The pass works on a record g: panes (the local copy of previousNodes),
\* views (the component's PaneView list, as object identities), items (the
\* engine's panes), heap (the PaneView objects by identity) and calls (the
\* engine calls made so far).

\* The identity of the next PaneView object: one that names no object the
\* pass started with or created, and that no reference holds.
NewViewId(g) ==
  LET used == {g.views[i] : i \in DOMAIN g.views}
                \cup {g.items[i].view : i \in DOMAIN g.items}
                \cup DOMAIN g.heap
  IN CHOOSE id \in 1..(3 * MaxNodes + 1) : id \notin used

\* nodes.filter(node => !previousNodes.includes(node))
EnterOf(nodes, previousNodes) ==
  SelectSeq(nodes, LAMBDA node : ~ includes(previousNodes, node))

\* nodes.filter(node => previousNodes.includes(node))
UpdateOf(nodes, previousNodes) ==
  SelectSeq(nodes, LAMBDA node : includes(previousNodes, node))

\* previousNodes.map(node => !nodes.includes(node))
ExitOf(nodes, previousNodes) ==
  [i \in DOMAIN previousNodes |-> ~ includes(nodes, previousNodes[i])]

\* for (let index = exit.length - 1; index >= 0; index--) (lines 279-285)
RECURSIVE ExitLoop(_, _, _)
ExitLoop(g, exit, index) ==
  IF index < 0 THEN g
  ELSE IF exit[index + 1] THEN
    ExitLoop(
      [g EXCEPT
         !.calls = Append(@, Call("removeView", index, -1, Undefined, Len(g.items))),
         !.items = EngineRemoveView(@, index),
         !.panes = SpliceOut(@, index),
         !.views = SpliceOut(@, index)],
      exit, index - 1)
  ELSE ExitLoop(g, exit, index - 1)

\* Mutant: a child enters one position after its place in nodes.
EnterOne_OnePastIndex(g, enterNode, nodes, props, propsRef) ==
  LET svProps == MapGet(propsRef, enterNode)
      view == NewViewId(g)
      at == findIndex(nodes, enterNode) + 1
  IN [g EXCEPT
        !.heap = (view :> NewPaneView(GluePaneViewOptions(svProps, props))) @@ @,
        !.calls = Append(@, Call("addView", at, -1, Undefined, Len(g.items))),
        !.items = EngineAddView(@, enterNode, view, at),
        !.panes = SpliceIn(@, at, enterNode),
        !.views = SpliceIn(@, at, view)]

\* One round of for (const enterNode of enter) (lines 287-319).
EnterOne(g, enterNode, nodes, props, propsRef) ==
  LET svProps == MapGet(propsRef, enterNode)
      view == NewViewId(g)
      at == findIndex(nodes, enterNode)
  IN [g EXCEPT
        !.heap = (view :> NewPaneView(GluePaneViewOptions(svProps, props))) @@ @,
        !.calls = Append(@, Call("addView", at, -1, Undefined, Len(g.items))),
        !.items = EngineAddView(@, enterNode, view, at),
        !.panes = SpliceIn(@, at, enterNode),
        !.views = SpliceIn(@, at, view)]

RECURSIVE EnterLoop(_, _, _, _, _, _)
EnterLoop(g, enter, k, nodes, props, propsRef) ==
  IF k > Len(enter) THEN g
  ELSE EnterLoop(EnterOne(g, enter[k], nodes, props, propsRef),
                 enter, k + 1, nodes, props, propsRef)

\* The first i with panes.findIndex(nodes[i]) !== i (lines 323-326).
FirstMisplaced(nodes, panes) ==
  CHOOSE i \in 0..(Len(nodes) - 1) :
    /\ findIndex(panes, nodes[i + 1]) # i
    /\ \A j \in 0..(i - 1) : findIndex(panes, nodes[j + 1]) = j

\* Mutant: the misplaced child is moved to the end of panes.
MoveOne_ToEnd(g, nodes) ==
  LET i == FirstMisplaced(nodes, g.panes)
      index == findIndex(g.panes, nodes[i + 1])
      tempNode == g.panes[index + 1]
  IN [g EXCEPT
        !.calls = Append(@, Call("moveView", index, Len(g.panes) - 1, Undefined, Len(g.items))),
        !.items = EngineMoveView(@, index, Len(g.panes) - 1),
        !.panes = SpliceIn(SpliceOut(@, index), Len(g.panes) - 1, tempNode)]

\* One round of the while loop's body (lines 323-339).
MoveOne(g, nodes) ==
  LET i == FirstMisplaced(nodes, g.panes)
      index == findIndex(g.panes, nodes[i + 1])
      tempNode == g.panes[index + 1]
  IN [g EXCEPT
        !.calls = Append(@, Call("moveView", index, i, Undefined, Len(g.items))),
        !.items = EngineMoveView(@, index, i),
        !.panes = SpliceIn(SpliceOut(@, index), i, tempNode)]

\* while (!isEqual(nodes, panes)) (lines 322-340)
RECURSIVE MoveLoop(_, _)
MoveLoop(g, nodes) ==
  IF nodes = g.panes THEN g ELSE MoveLoop(MoveOne(g, nodes), nodes)

\* for (const enterNode of enter): resizeView to the preferred size
\* (lines 342-350)
RECURSIVE EnterResizeLoop(_, _, _, _, _)
EnterResizeLoop(g, enter, k, nodes, lsSize) ==
  IF k > Len(enter) THEN g
  ELSE
    LET index == findIndex(nodes, enter[k])
        preferredSize == preferredSizeOf(g.heap[g.views[index + 1]], lsSize)
    IN EnterResizeLoop(
         IF preferredSize # Undefined
           THEN [g EXCEPT !.calls =
                   Append(@, Call("resizeView", index, -1, preferredSize, Len(g.items)))]
           ELSE g,
         enter, k + 1, nodes, lsSize)

\* for (const updateNode of [...enter, ...update]): visibility (lines 352-365)
RECURSIVE VisibleLoop(_, _, _, _, _)
VisibleLoop(g, list, k, nodes, propsRef) ==
  IF k > Len(list) THEN g
  ELSE
    LET svProps == MapGet(propsRef, list[k])
        index == findIndex(nodes, list[k])
    IN VisibleLoop(
         IF /\ svProps.present /\ isPaneProps(svProps)
            /\ svProps.visible # Undefined
            /\ EngineIsViewVisible(g.items, index) # Truthy(svProps.visible)
           THEN [g EXCEPT
                   !.calls = Append(@, Call("setViewVisible", index, -1,
                                            svProps.visible, Len(g.items))),
                   !.items = EngineSetViewVisible(@, index, Truthy(svProps.visible),
                               g.heap[g.items[index + 1].view].snap = True)]
           ELSE g,
         list, k + 1, nodes, propsRef)

\* Mutant: the update loop changes the bounds and never calls layout().
UpdateOne_NoLayout(g, updateNode, nodes, propsRef, lsSize) ==
  LET svProps == MapGet(propsRef, updateNode)
      view == g.views[findIndex(nodes, updateNode) + 1]
      h1 == IF svProps.minSize # Undefined
              THEN [g.heap EXCEPT ![view] = SetMinimumSize(@, svProps.minSize)]
              ELSE g.heap
      h2 == IF svProps.maxSize # Undefined
              THEN [h1 EXCEPT ![view] = SetMaximumSize(@, svProps.maxSize)]
              ELSE h1
  IN IF svProps.present /\ isPaneProps(svProps) THEN [g EXCEPT !.heap = h2] ELSE g

\* One round of for (const updateNode of update) (lines 367-401).
UpdateOne(g, updateNode, nodes, propsRef, lsSize) ==
  LET svProps == MapGet(propsRef, updateNode)
      index == findIndex(nodes, updateNode)
      view == g.views[index + 1]
      setPreferred == /\ svProps.preferredSize # Undefined
                      /\ StrictNe(preferredSizeOf(g.heap[view], lsSize), svProps.preferredSize)
      h1 == IF setPreferred
              THEN [g.heap EXCEPT ![view] = SetPreferredSize(@, svProps.preferredSize)]
              ELSE g.heap
      setMin == /\ svProps.minSize # Undefined
                /\ StrictNe(h1[view].minimumSize, svProps.minSize)
      h2 == IF setMin THEN [h1 EXCEPT ![view] = SetMinimumSize(@, svProps.minSize)]
            ELSE h1
      setMax == /\ svProps.maxSize # Undefined
                /\ StrictNe(h2[view].maximumSize, svProps.maxSize)
      h3 == IF setMax THEN [h2 EXCEPT ![view] = SetMaximumSize(@, svProps.maxSize)]
            ELSE h2
      sizeChanged == setMin \/ setMax
  IN IF svProps.present /\ isPaneProps(svProps)
       THEN [g EXCEPT
               !.heap = h3,
               !.calls = IF sizeChanged
                           THEN Append(@, Call("layout", -1, -1, Undefined, Len(g.items)))
                           ELSE @]
       ELSE g

RECURSIVE UpdateLoop(_, _, _, _, _, _)
UpdateLoop(g, update, k, nodes, propsRef, lsSize) ==
  IF k > Len(update) THEN g
  ELSE UpdateLoop(UpdateOne(g, update[k], nodes, propsRef, lsSize),
                  update, k + 1, nodes, propsRef, lsSize)

\* Mutant: previousNodes is refreshed only when a child entered or left.
NextPreviousNodes_OnlyOnEnterOrExit(previousNodes, nodes, enter, exit) ==
  IF Len(enter) > 0 \/ (\E i \in DOMAIN exit : exit[i]) THEN nodes ELSE previousNodes

\* if (enter.length > 0 || exit.length > 0) previousNodes = nodes (lines 403-405)
NextPreviousNodes(previousNodes, nodes, enter, exit) ==
  IF Len(enter) > 0 \/ Len(exit) > 0 THEN nodes ELSE previousNodes

\* The body of the render effect once dimensionsInitialized() (lines 272-405):
\* the state of the pass at its end, with previousNodes as the pass leaves it.
Reconcile(nodes, previousNodes, views, items, heap, props, propsRef, lsSize) ==
  LET enter == EnterOf(nodes, previousNodes)
      update == UpdateOf(nodes, previousNodes)
      exit == ExitOf(nodes, previousNodes)
      g0 == [panes |-> previousNodes, views |-> views, items |-> items,
             heap |-> heap, calls |-> <<>>]
      g1 == ExitLoop(g0, exit, Len(exit) - 1)
      g2 == EnterLoop(g1, enter, 1, nodes, props, propsRef)
      g3 == MoveLoop(g2, nodes)
      g4 == EnterResizeLoop(g3, enter, 1, nodes, lsSize)
      g5 == VisibleLoop(g4, enter \o update, 1, nodes, propsRef)
      g6 == UpdateLoop(g5, update, 1, nodes, propsRef, lsSize)
  IN [views |-> g6.views, items |-> g6.items, heap |-> g6.heap, calls |-> g6.calls,
      previousNodes |-> NextPreviousNodes(previousNodes, nodes, enter, exit)]

\* ------------------------------------------------- helpers/platform.ts, sash

\* Substrings of navigator.userAgent that platform.ts looks for.
UserAgentMarks == {"Macintosh", "iPad", "iPhone", "WebKit", "Chrome"}

\* The global navigator: absent (typeof navigator is not "object"), or an
\* object whose userAgent holds some of the marks and whose maxTouchPoints
\* is undefined or a number.
Navigators ==
  {[exists |-> FALSE, userAgent |-> {}, maxTouchPoints |-> Undefined]}
    \cup {[exists |-> TRUE, userAgent |-> marks, maxTouchPoints |-> touch] :
            marks \in SUBSET UserAgentMarks, touch \in {Undefined, Num(0), Num(1)}}

\* The environment without a navigator.
NoNavigator == [exists |-> FALSE, userAgent |-> {}, maxTouchPoints |-> Undefined]

\* _userAgent.indexOf(mark) >= 0
indexOfFound(userAgent, mark) == mark \in userAgent

\* isIOS (platform.ts lines 14-26)
isIOS(navigator) ==
  IF ~ navigator.exists THEN FALSE
  ELSE /\ \/ indexOfFound(navigator.userAgent, "Macintosh")
          \/ indexOfFound(navigator.userAgent, "iPad")
          \/ indexOfFound(navigator.userAgent, "iPhone")
       /\ Truthy(navigator.maxTouchPoints)
       /\ navigator.maxTouchPoints.t = "number"
       /\ navigator.maxTouchPoints.v > 0

\* isMacintosh (platform.ts lines 14-16, 27)
isMacintosh(navigator) ==
  IF ~ navigator.exists THEN FALSE
  ELSE indexOfFound(navigator.userAgent, "Macintosh")

\* isApple (platform.ts line 28)
isApple(navigator) == isIOS(navigator) \/ isMacintosh(navigator)

\* isWebkit (platform.ts lines 23, 29)
isWebkit(navigator) ==
  IF ~ navigator.exists THEN FALSE
  ELSE /\ indexOfFound(navigator.userAgent, "WebKit")
       /\ ~ indexOfFound(navigator.userAgent, "Chrome")

\* Mutant: clamp without its lower bound.
clamp_NoLower(number, lower, upper) == IF number <= upper THEN number ELSE upper

\* clamp(number, lower, upper) of lodash.clamp, on integers: the upper bound is
\* applied first, then the lower.
clamp(number, lower, upper) ==
  LET capped == IF number <= upper THEN number ELSE upper
  IN IF capped >= lower THEN capped ELSE lower

\* A CSS length size + "px".
Px(size) == [n |-> size, unit |-> "px"]

\* The sash configuration before setSashSize was called: the two custom
\* properties and the global sash size hold what the stylesheet and the sash
\* module start with, which this module never reads.
NoSashSize ==
  [called |-> FALSE, sashSize |-> 0, sashSizeProperty |-> Px(0),
   sashHoverSizeProperty |-> Px(0), globalSashSize |-> 0]

\* setSashSize(sashSize) (lines 497-505): the configuration it leaves.
setSashSize(sashSize) ==
  LET size == clamp(sashSize, 4, 20)
      hoverSize == clamp(sashSize, 1, 8)
  IN [called |-> TRUE, sashSize |-> sashSize, sashSizeProperty |-> Px(size),
      sashHoverSizeProperty |-> Px(hoverSize), globalSashSize |-> size]

\* The third onMount callback (lines 425-429).
OnMountSashSize(navigator, current) ==
  IF isIOS(navigator) THEN setSashSize(20) ELSE current

\* ------------------------------------------------------------ LayoutService

\* The cell of a new LayoutService, before any setSize.
LayoutServiceNew == Num(0)

\* Sizes the LayoutService is set to (whole pixels).
Extents == {0, 200, 300}

\* ------------------------------------------------------------------- state

VARIABLES
  input,              \* PaneView scenario: the declared preferred size under test
  pane,               \* PaneView scenario: the PaneView object
  paneDeclared,       \* PaneView scenario: the value the pane's strategy was built from
  paneVia,            \* PaneView scenario: "constructor" or "setter" built the strategy
  lastRead,           \* PaneView scenario: last read of pane.preferredSize since the last write
  layoutServiceSize,  \* LayoutService: the current size
  props,              \* Allotment: the props the host passes
  phase,              \* Allotment: "created", "mounted", "unmounted" or "error"
  nodes,              \* Allotment: childrenArray()
  previousNodes,      \* Allotment: previousNodes
  splitViewPropsRef,  \* Allotment: the Map from child node to PaneProps
  splitViewViewRef,   \* Allotment: the keys of the Map from child node to its wrapper element
  views,              \* Allotment: views (PaneView object identities)
  heap,               \* the PaneView objects the component created, by identity
  splitViewRef,       \* Allotment: the engine (exists is FALSE while splitViewRef is null)
  dimensionsInitialized, \* Allotment: the dimensionsInitialized signal
  event,              \* the last event handled
  calls,              \* the engine calls the last handler made, in order
  hostCalls,          \* the host callbacks the last handler made, in order
  platform,           \* the global navigator that helpers/platform.ts read when loaded
  sash                \* the sash configuration: custom properties and global sash size

paneVars == <<input, pane, paneDeclared, paneVia, lastRead>>

sashVars == <<platform, sash>>

allotmentVars ==
  <<props, phase, nodes, previousNodes, splitViewPropsRef, splitViewViewRef, views,
    heap, splitViewRef, dimensionsInitialized, event, calls, hostCalls>>

vars == <<input, pane, paneDeclared, paneVia, lastRead, layoutServiceSize,
          props, phase, nodes, previousNodes, splitViewPropsRef, splitViewViewRef,
          views, heap, splitViewRef, dimensionsInitialized, event, calls, hostCalls,
          platform, sash>>

\* An event: its type and up to two numbers (the width and height of a
\* resize; the pane a sash change hid or showed and whether the host supplies
\* onVisibleChange; the sash of a reset and whether the host supplies
\* onReset); pass tells whether handling it ran the reconciliation pass.
Event(type, a, b, pass) == [type |-> type, a |-> a, b |-> b, pass |-> pass]

\* new Map(), [] and null
EmptyMap == <<>>
NoSplitView ==
  [exists |-> FALSE, items |-> <<>>, disposed |-> FALSE,
   descriptor |-> [given |-> FALSE, size |-> 0, sizes |-> <<>>]]

\* No navigator, and setSashSize not called.
SashIdle ==
  /\ platform = NoNavigator
  /\ sash = NoSashSize

\* The Allotment variables while only a PaneView is exercised.
AllotmentIdle ==
  /\ props = [vertical |-> FALSE, defaultSizes |-> [given |-> FALSE, sizes |-> <<>>],
              minSize |-> Undefined, maxSize |-> Undefined, snap |-> Undefined]
  /\ phase = "created"
  /\ nodes = <<>>
  /\ previousNodes = <<>>
  /\ splitViewPropsRef = EmptyMap
  /\ splitViewViewRef = {}
  /\ views = <<>>
  /\ heap = EmptyMap
  /\ splitViewRef = NoSplitView
  /\ dimensionsInitialized = FALSE
  /\ event = Event("none", -1, -1, FALSE)
  /\ calls = <<>>
  /\ hostCalls = <<>>

\* ------------------------------------------------ PaneView scenario (SpecPane)

\* Declared preferred sizes: numbers, strings over Chars, undefined.
DeclaredValues ==
  {Num(0), Num(120), NaN, Undefined} \cup {Str(chars) : chars \in Strings}

\* Preferred sizes a pane is first constructed with before the setter is used.
InitialValues == {Undefined, Num(120), Str(<<"5", "0", "%">>)}

NoRead == [read |-> FALSE, value |-> Undefined]

\* options carrying only preferredSize
OnlyPreferredSize(preferredSize) ==
  PaneViewOptions(Undefined, Undefined, "undefined", preferredSize, Undefined)

InitPane ==
  /\ input \in DeclaredValues
  /\ \E initial \in InitialValues :
       /\ pane = NewPaneView(OnlyPreferredSize(initial))
       /\ paneDeclared = initial
  /\ paneVia = "constructor"
  /\ lastRead = NoRead
  /\ layoutServiceSize = LayoutServiceNew
  /\ AllotmentIdle
  /\ SashIdle

\* new PaneView(layoutService, {preferredSize: input})
PaneConstruct ==
  /\ pane' = NewPaneView(OnlyPreferredSize(input))
  /\ paneDeclared' = input
  /\ paneVia' = "constructor"
  /\ lastRead' = NoRead
  /\ UNCHANGED <<input, layoutServiceSize, allotmentVars, sashVars>>

\* pane.preferredSize = input
PaneSetPreferredSize ==
  /\ pane' = SetPreferredSize(pane, input)
  /\ paneDeclared' = input
  /\ paneVia' = "setter"
  /\ lastRead' = NoRead
  /\ UNCHANGED <<input, layoutServiceSize, allotmentVars, sashVars>>

\* layoutService.setSize(n)
LayoutServiceSetSize(n) ==
  /\ layoutServiceSize' = Num(n)
  /\ lastRead' = NoRead
  /\ UNCHANGED <<input, pane, paneDeclared, paneVia, allotmentVars, sashVars>>

\* pane.preferredSize (the getter)
PaneReadPreferredSize ==
  /\ lastRead' = [read |-> TRUE, value |-> preferredSizeOf(pane, layoutServiceSize)]
  /\ UNCHANGED <<input, pane, paneDeclared, paneVia, layoutServiceSize, allotmentVars, sashVars>>

NextPane ==
  \/ PaneConstruct
  \/ PaneSetPreferredSize
  \/ \E n \in Extents : LayoutServiceSetSize(n)
  \/ PaneReadPreferredSize

SpecPane == InitPane /\ [][NextPane]_vars

\* ---------------------------------------------- claims on PaneView (SpecPane)

\* A decimal numeral: digits, with an optional minus sign.
ClaimIsNumeral(cs) ==
  /\ cs # <<>>
  /\ IF cs[1] = "-" THEN Len(cs) >= 2 /\ AllDigits(Tail(cs)) ELSE AllDigits(cs)

\* The whole number a decimal numeral denotes.
ClaimNumeralValue(cs) ==
  IF cs[1] = "-" THEN 0 - DigitsValue(Tail(cs), 10) ELSE DigitsValue(cs, 10)

\* d is a string made of a numeral followed by suffix.
ClaimHasSuffix(d, suffix) ==
  /\ d.t = "string"
  /\ Len(d.s) > Len(suffix)
  /\ SubSeq(d.s, Len(d.s) - Len(suffix) + 1, Len(d.s)) = suffix
  /\ ClaimIsNumeral(SubSeq(d.s, 1, Len(d.s) - Len(suffix)))

\* The leading number of such a string.
ClaimLeading(d, suffix) == ClaimNumeralValue(SubSeq(d.s, 1, Len(d.s) - Len(suffix)))

\* d is a string that is not numeric in any reading: it holds no digit and,
\* trimmed, ends neither in "%" nor in "px".
ClaimIsMalformed(d) ==
  /\ d.t = "string"
  /\ \A i \in DOMAIN d.s : d.s[i] \notin Digits
  /\ ~ endsWith(trim(d.s), <<"%">>)
  /\ ~ endsWith(trim(d.s), <<"p", "x">>)

\* C2 (as claimed): a pane whose preferred size was declared, through the
\* constructor or the setter, as a string "<n>px" holds a Fixed (Pixel)
\* strategy and its preferredSize reads n pixels.
CE_C2_PxIsPixels ==
  ClaimHasSuffix(paneDeclared, <<"p", "x">>) =>
    /\ pane.layoutStrategy.kind = "Pixel"
    /\ preferredSizeOf(pane, layoutServiceSize)
         = Num(ClaimLeading(paneDeclared, <<"p", "x">>))

\* C3 (as claimed): a pane whose preferred size was declared as a string that
\* is not numeric, does not end in "%" and does not end in "px" ("abc", "")
\* holds the Unset (Null) strategy and its preferredSize reads undefined.
CE_C3_MalformedIsUnset ==
  ClaimIsMalformed(paneDeclared) =>
    /\ pane.layoutStrategy = NullLayout
    /\ preferredSizeOf(pane, layoutServiceSize) = Undefined

\* C4: every read of the preferredSize of a pane declared as "<p>%" returns
\* (p / 100) * the LayoutService size at the time of the read; lastRead is
\* cleared by every write, so a read recorded here was made under the current
\* size and strategy, and two reads in a row agree.
T_C4_PercentFollowsLayoutSize ==
  (lastRead.read /\ ClaimHasSuffix(paneDeclared, <<"%">>)) =>
    lastRead.value =
      Hundredths(ClaimLeading(paneDeclared, <<"%">>) * (layoutServiceSize.v \div 100))

\* C4 witness: a pane set to a non-zero percentage was read after setSize(300).
W_C4_PercentRead ==
  /\ lastRead.read
  /\ paneVia = "setter"
  /\ ClaimHasSuffix(paneDeclared, <<"%">>)
  /\ ClaimLeading(paneDeclared, <<"%">>) = 50
  /\ layoutServiceSize = Num(300)
  /\ lastRead.value = Num(150)

\* ------------------------------------------------- Allotment scenario (Spec)

\* The PaneView scenario's variables while the Allotment is exercised.
PaneIdle ==
  /\ input = Undefined
  /\ pane = NewPaneView(OnlyPreferredSize(Undefined))
  /\ paneDeclared = Undefined
  /\ paneVia = "constructor"
  /\ lastRead = NoRead

\* props.defaultSizes: left out, or two sizes
DefaultSizesCases ==
  {[given |-> FALSE, sizes |-> <<>>], [given |-> TRUE, sizes |-> <<100, 200>>]}

\* props.minSize and props.maxSize: both left out, only maxSize given, both given
BoundsCases ==
  {<<Undefined, Undefined>>, <<Undefined, Num(20)>>, <<Num(50), Num(100)>>}

\* The props of the component (AllotmentProps) that it reads when it creates
\* the engine and the panes.  The callback props onReset and onVisibleChange
\* are read when an event is handled: they are inputs of the handlers.
AllPropsCases ==
  {[vertical |-> vertical, defaultSizes |-> defaultSizes,
    minSize |-> bounds[1], maxSize |-> bounds[2], snap |-> Undefined] :
     vertical \in BOOLEAN, defaultSizes \in DefaultSizesCases,
     bounds \in BoundsCases}

\* The props with every optional prop left out.
DefaultProps ==
  [vertical |-> FALSE, defaultSizes |-> [given |-> FALSE, sizes |-> <<>>],
   minSize |-> Undefined, maxSize |-> Undefined, snap |-> Undefined]

\* How many of vertical, defaultSizes and the bounds the host sets.
PropsSet(p) ==
  (IF p.vertical THEN 1 ELSE 0) + (IF p.defaultSizes.given THEN 1 ELSE 0)
    + (IF <<p.minSize, p.maxSize>> # <<Undefined, Undefined>> THEN 1 ELSE 0)

\* The props enumerated under Spec: snap is left out and the host sets at
\* most one of the others.
PropsCases == {p \in AllPropsCases : PropsSet(p) <= 1}

\* The props enumerated under SpecSnap: snap is set, the others are left out.
SnapPropsCases == {[DefaultProps EXCEPT !.snap = True]}

\* A host callback the component made.
HostCall(fn, index, visible) == [fn |-> fn, index |-> index, visible |-> visible]

InitWith(cases) ==
  /\ PaneIdle
  /\ SashIdle
  /\ layoutServiceSize = LayoutServiceNew
  /\ props \in cases
  /\ phase = "created"
  /\ nodes \in ChildLists
  /\ previousNodes = <<>>
  /\ splitViewPropsRef = EmptyMap
  /\ splitViewViewRef = {}
  /\ views = <<>>
  /\ heap = EmptyMap
  /\ splitViewRef = NoSplitView
  /\ dimensionsInitialized = FALSE
  /\ event = Event("none", -1, -1, FALSE)
  /\ calls = <<>>
  /\ hostCalls = <<>>

\* The <For> callback (lines 451-483) runs for every child it has not rendered
\* yet and throws for a Pane element.
RenderThrows(list, rendered) ==
  \E i \in DOMAIN list : isPane(list[i]) /\ list[i] \notin rendered

\* The ref callbacks of the wrappers rendered for list (lines 471-477):
\* splitViewViewRef.set(node, el), the wrapper el named by the node it wraps.
\* The entries of children that left stay in the Map and are not read again;
\* the model keeps the entries of the current children.
RefCallbacks(keys, list) == {list[i] : i \in DOMAIN list}

\* Object identities are names, and any one-to-one renaming of them is the
\* same program state.  After a pass the PaneView objects are renamed to a
\* canonical form: a view the engine holds is named by the child node of its
\* container; a view that only the component's list still holds is named
\* MaxNodes + k, k its rank among such views in the list.  Objects nothing
\* refers to are dropped.
EngineViews(items) == {items[i].view : i \in DOMAIN items}

CanonicalName(id, vs, items) ==
  IF id \in EngineViews(items)
    THEN items[CHOOSE i \in DOMAIN items : items[i].view = id].container
    ELSE MaxNodes + Cardinality({j \in DOMAIN vs :
                                   /\ vs[j] \notin EngineViews(items)
                                   /\ j <= CHOOSE k \in DOMAIN vs : vs[k] = id})

CanonicalViews(vs, items) ==
  [i \in DOMAIN vs |-> CanonicalName(vs[i], vs, items)]

CanonicalItems(items) ==
  [i \in DOMAIN items |-> [items[i] EXCEPT !.view = items[i].container]]

CanonicalHeap(h, vs, items) ==
  LET used == {vs[i] : i \in DOMAIN vs} \cup EngineViews(items)
  IN [name \in {CanonicalName(id, vs, items) : id \in used} |->
        h[CHOOSE id \in used : CanonicalName(id, vs, items) = name]]

\* Mutant: the sizes are never initialized from defaultSizes.
initializeSizes_Never(defaultSizes, size) == FALSE

\* initializeSizes (lines 166-177), size being splitViewViewRef.size
initializeSizes(defaultSizes, size) ==
  ~ (defaultSizes.given /\ size # Len(defaultSizes.sizes))

\* The component function and its onMount callbacks (lines 114-265, 425-429).
Mount ==
  /\ phase = "created"
  /\ IF RenderThrows(nodes, {})
       THEN /\ phase' = "error"
            /\ event' = Event("error", -1, -1, FALSE)
            /\ calls' = <<>>
            /\ hostCalls' = <<>>
            /\ UNCHANGED <<previousNodes, splitViewViewRef, views, heap, splitViewRef>>
       ELSE
         LET refs == RefCallbacks({}, nodes)
             seeded == initializeSizes(props.defaultSizes, Cardinality(refs))
                         /\ props.defaultSizes.given
             prev == IF seeded THEN nodes ELSE <<>>
             sizes == props.defaultSizes.sizes
             sum == IF seeded THEN sizes[1] + sizes[2] ELSE 0
         IN /\ phase' = "mounted"
            /\ splitViewViewRef' = refs
            /\ previousNodes' = prev
            /\ views' = IF seeded THEN [i \in DOMAIN sizes |-> prev[i]] ELSE <<>>
            /\ heap' = IF seeded
                         THEN [id \in {prev[i] : i \in DOMAIN sizes} |->
                                 NewPaneView(GluePaneViewOptions(
                                   MapGet(splitViewPropsRef, id), props))]
                         ELSE EmptyMap
            /\ splitViewRef' =
                 [exists |-> TRUE, disposed |-> FALSE,
                  items |-> IF seeded
                              THEN [i \in DOMAIN sizes |-> EngineItem(nodes[i], nodes[i])]
                              ELSE <<>>,
                  descriptor |-> IF seeded
                                   THEN [given |-> TRUE, size |-> sum, sizes |-> sizes]
                                   ELSE NoSplitView.descriptor]
            /\ event' = Event("mount", -1, -1, FALSE)
            /\ calls' = <<>>
            /\ hostCalls' = <<>>
  /\ sash' = IF RenderThrows(nodes, {}) THEN sash ELSE OnMountSashSize(platform, sash)
  /\ UNCHANGED <<platform, paneVars, layoutServiceSize, props, nodes, splitViewPropsRef,
                 dimensionsInitialized>>

\* The render effect's pass over the child list ns under LayoutService size ls.
Pass(ns, ls) ==
  Reconcile(ns, previousNodes, views, splitViewRef.items, heap, props,
            splitViewPropsRef, ls)

\* The state a pass leaves, after the engine calls `before`.
ApplyPass(r, before) ==
  /\ previousNodes' = r.previousNodes
  /\ views' = CanonicalViews(r.views, r.items)
  /\ heap' = CanonicalHeap(r.heap, r.views, r.items)
  /\ splitViewRef' = [splitViewRef EXCEPT !.items = CanonicalItems(r.items)]
  /\ calls' = before \o r.calls

\* The host renders another child list: childrenArray() changes, <For>
\* renders the new children and the render effect runs (lines 270-407).
SetChildren(list) ==
  /\ phase = "mounted"
  /\ list # nodes
  /\ nodes' = list
  /\ hostCalls' = <<>>
  /\ IF RenderThrows(list, splitViewViewRef)
       THEN /\ phase' = "error"
            /\ event' = Event("error", -1, -1, FALSE)
            /\ calls' = <<>>
            /\ UNCHANGED <<previousNodes, splitViewViewRef, views, heap, splitViewRef>>
       ELSE /\ phase' = phase
            /\ splitViewViewRef' = RefCallbacks(splitViewViewRef, list)
            /\ event' = Event("children", -1, -1, dimensionsInitialized)
            /\ IF dimensionsInitialized
                 THEN ApplyPass(Pass(list, layoutServiceSize), <<>>)
                 ELSE /\ calls' = <<>>
                      /\ UNCHANGED <<previousNodes, views, heap, splitViewRef>>
  /\ UNCHANGED <<sashVars, paneVars, layoutServiceSize, props, splitViewPropsRef,
                 dimensionsInitialized>>

\* Mutant: the width is passed on whatever the orientation.
ObservedSize_AlwaysWidth(width, height) == width

\* props.vertical ? height : width (lines 418-419)
ObservedSize(width, height) == IF props.vertical THEN height ELSE width

\* Mutant: the observer does not write the LayoutService.
ObserverSetSize_Skipped(current, width, height) == current

\* layoutService.setSize(props.vertical ? height : width) (line 419): the
\* cell after the call.
ObserverSetSize(current, width, height) == Num(ObservedSize(width, height))

\* The resize observer's callback (lines 416-422); setting
\* dimensionsInitialized for the first time runs the render effect.
Resize(width, height) ==
  /\ phase = "mounted"
  /\ hostCalls' = <<>>
  /\ IF width # 0 /\ height # 0
       THEN
         LET size == ObservedSize(width, height)
             layout == <<Call("layout", -1, -1, Num(size), Len(splitViewRef.items))>>
         IN /\ layoutServiceSize' = ObserverSetSize(layoutServiceSize, width, height)
            /\ dimensionsInitialized' = TRUE
            /\ event' = Event("resize", width, height, ~ dimensionsInitialized)
            /\ IF dimensionsInitialized
                 THEN /\ calls' = layout
                      /\ UNCHANGED <<previousNodes, views, heap, splitViewRef>>
                 ELSE ApplyPass(Pass(nodes, ObserverSetSize(layoutServiceSize, width, height)),
                                layout)
       ELSE /\ event' = Event("resize", width, height, FALSE)
            /\ calls' = <<>>
            /\ UNCHANGED <<layoutServiceSize, dimensionsInitialized, previousNodes,
                           views, heap, splitViewRef>>
  /\ UNCHANGED <<sashVars, paneVars, props, phase, nodes, splitViewPropsRef, splitViewViewRef>>

\* The "sashchange" listener (lines 224-241): the onVisibleChange calls it makes.
RECURSIVE SashChangeListener(_, _)
SashChangeListener(items, index) ==
  IF index >= Len(nodes) THEN <<>>
  ELSE
    LET paneProps == MapGet(splitViewPropsRef, nodes[index + 1])
        visible == EngineIsViewVisible(items, index)
    IN (IF paneProps.visible # Undefined /\ Truthy(paneProps.visible) # visible
          THEN <<HostCall("onVisibleChange", index, visible)>>
          ELSE <<>>)
       \o SashChangeListener(items, index + 1)

\* The engine changes a sash, hiding or showing the snap pane at index flip
\* (none when flip is -1), and dispatches "sashchange".
SashChange(flip, onVisibleChange) ==
  /\ phase = "mounted"
  /\ Len(splitViewRef.items) >= 2
  /\ flip >= 0 => /\ flip < Len(splitViewRef.items)
                  /\ heap[splitViewRef.items[flip + 1].view].snap = True
  /\ LET items == IF flip >= 0
                    THEN [splitViewRef.items EXCEPT ![flip + 1].visible = ~ @]
                    ELSE splitViewRef.items
     IN /\ splitViewRef' = [splitViewRef EXCEPT !.items = items]
        /\ hostCalls' = IF onVisibleChange /\ splitViewRef.exists
                          THEN SashChangeListener(items, 0)
                          ELSE <<>>
  /\ event' = Event("sashchange", flip, IF onVisibleChange THEN 1 ELSE 0, FALSE)
  /\ calls' = <<>>
  /\ UNCHANGED <<sashVars, paneVars, layoutServiceSize, props, phase, nodes, previousNodes,
                 splitViewPropsRef, splitViewViewRef, views, heap,
                 dimensionsInitialized>>

\* resizeToPreferredSize(index) (lines 136-146): whether it resized, and the
\* engine call it made.
resizeToPreferredSize(index) ==
  LET preferredSize ==
        IF index + 1 \in DOMAIN views
          THEN preferredSizeOf(heap[views[index + 1]], layoutServiceSize)
          ELSE Undefined
  IN IF TypeOf(preferredSize) # "number"
       THEN [done |-> FALSE, calls |-> <<>>]
       ELSE [done |-> TRUE,
             calls |-> <<Call("resizeView", index, -1, MathRound(preferredSize),
                              Len(splitViewRef.items))>>]

\* Mutant: the built-in reset runs even when the host supplied onReset.
SashResetListener_AlwaysResets(index, onReset) ==
  [hostCalls |-> IF onReset THEN <<HostCall("onReset", -1, FALSE)>> ELSE <<>>,
   calls |-> IF resizeToPreferredSize(index).done
               THEN resizeToPreferredSize(index).calls
             ELSE IF resizeToPreferredSize(index + 1).done
               THEN resizeToPreferredSize(index + 1).calls
             ELSE <<Call("distributeViewSizes", -1, -1, Undefined,
                         Len(splitViewRef.items))>>]

\* The "sashreset" listener (lines 243-258): the host and engine calls it makes.
SashResetListener(index, onReset) ==
  IF onReset
    THEN [hostCalls |-> <<HostCall("onReset", -1, FALSE)>>, calls |-> <<>>]
    ELSE [hostCalls |-> <<>>,
          calls |-> IF resizeToPreferredSize(index).done
                      THEN resizeToPreferredSize(index).calls
                    ELSE IF resizeToPreferredSize(index + 1).done
                      THEN resizeToPreferredSize(index + 1).calls
                    ELSE <<Call("distributeViewSizes", -1, -1, Undefined,
                                Len(splitViewRef.items))>>]

\* The engine dispatches "sashreset" for the sash after pane index.
SashReset(index, onReset) ==
  /\ phase = "mounted"
  /\ index \in 0..(Len(splitViewRef.items) - 2)
  /\ hostCalls' = SashResetListener(index, onReset).hostCalls
  /\ calls' = SashResetListener(index, onReset).calls
  /\ event' = Event("sashreset", index, IF onReset THEN 1 ELSE 0, FALSE)
  /\ UNCHANGED <<sashVars, paneVars, layoutServiceSize, props, phase, nodes, previousNodes,
                 splitViewPropsRef, splitViewViewRef, views, heap, splitViewRef,
                 dimensionsInitialized>>

\* What the component registered with onCleanup: nothing.  The function the
\* first onMount callback returns (lines 262-264) is the return value of the
\* effect that onMount creates; solid-js keeps it as the effect's value and
\* does not call it.
CleanupOnUnmount(splitView) == splitView

\* The host unmounts the component: its owner is disposed, and with it the
\* component's own variables, which nothing refers to any more.  The engine
\* and the props live on with the host, and the LayoutService with the
\* engine's panes.
Unmount ==
  /\ phase = "mounted" \/ (phase = "error" /\ splitViewRef.exists)
  /\ phase' = "unmounted"
  /\ splitViewRef' = CleanupOnUnmount(splitViewRef)
  /\ event' = Event("unmount", -1, -1, FALSE)
  /\ calls' = <<>>
  /\ hostCalls' = <<>>
  /\ nodes' = <<>>
  /\ previousNodes' = <<>>
  /\ splitViewViewRef' = {}
  /\ views' = <<>>
  /\ heap' = EmptyMap
  /\ dimensionsInitialized' = FALSE
  /\ UNCHANGED <<sashVars, paneVars, layoutServiceSize, props, splitViewPropsRef>>

\* Widths and heights the resize observation reports.
Widths == {0, 200, 300}
Heights == {0, 100}

Next ==
  \/ Mount
  \/ \E list \in ChildLists : SetChildren(list)
  \/ \E width \in Widths, height \in Heights : Resize(width, height)
  \/ \E flip \in -1..(MaxNodes - 1), onVisibleChange \in BOOLEAN :
       SashChange(flip, onVisibleChange)
  \/ \E index \in 0..(MaxNodes - 2), onReset \in BOOLEAN : SashReset(index, onReset)
  \/ Unmount

Init == InitWith(PropsCases)

Spec == Init /\ [][Next]_vars

InitSnap == InitWith(SnapPropsCases)

SpecSnap == InitSnap /\ [][Next]_vars

\* ------------------------------------------------- sash scenario (SpecSash)

\* Arguments of setSashSize.
SashSizes == (0 - MaxSashSize)..MaxSashSize

\* The host calls setSashSize(sashSize).
SetSashSize(sashSize) ==
  /\ sash' = setSashSize(sashSize)
  /\ UNCHANGED <<platform, paneVars, layoutServiceSize, allotmentVars>>

\* A component without children, on any platform.
InitSash ==
  /\ PaneIdle
  /\ layoutServiceSize = LayoutServiceNew
  /\ AllotmentIdle
  /\ platform \in Navigators
  /\ sash = NoSashSize

NextSash ==
  \/ Mount
  \/ \E sashSize \in SashSizes : SetSashSize(sashSize)

SpecSash == InitSash /\ [][NextSash]_vars


\* ------------------------------------- pane props scenario (SpecUpdate)
\* The render effect reads the props of each child from splitViewPropsRef.
\* Under Spec that Map stays empty: the statement that fills it (line 456) is
\* commented out.  This scenario runs the passes of the render effect on a
\* mounted component whose Map holds PaneProps for its children, the values
\* the Map is declared to hold (line 117).

\* The PaneProps of one child: none, or bounds.
PaneBoundsCases ==
  {NoProps,
   [NoProps EXCEPT !.present = TRUE, !.minSize = Num(20)],
   [NoProps EXCEPT !.present = TRUE, !.maxSize = Num(100)],
   [NoProps EXCEPT !.present = TRUE, !.minSize = Num(50), !.maxSize = Num(100)]}

\* A mounted component after its first pass over the children nodes, whose
\* panes were built from the component's own minSize and maxSize.
InitUpdate ==
  /\ PaneIdle
  /\ SashIdle
  /\ layoutServiceSize = Num(200)
  /\ \E bounds \in BoundsCases :
       props = [DefaultProps EXCEPT !.minSize = bounds[1], !.maxSize = bounds[2]]
  /\ phase = "mounted"
  /\ nodes \in PlainChildLists
  /\ previousNodes = nodes
  /\ splitViewPropsRef \in [Nodes -> PaneBoundsCases]
  /\ splitViewViewRef = {nodes[i] : i \in DOMAIN nodes}
  /\ views = nodes
  /\ heap = [id \in {nodes[i] : i \in DOMAIN nodes} |->
               NewPaneView(GluePaneViewOptions(NoProps, props))]
  /\ splitViewRef = [NoSplitView EXCEPT
                       !.exists = TRUE,
                       !.items = [i \in DOMAIN nodes |-> EngineItem(nodes[i], nodes[i])]]
  /\ dimensionsInitialized = TRUE
  /\ event = Event("none", -1, -1, FALSE)
  /\ calls = <<>>
  /\ hostCalls = <<>>

NextUpdate == \E list \in ChildLists : SetChildren(list)

SpecUpdate == InitUpdate /\ [][NextUpdate]_vars

\* --------------------------------------- reordering loop scenario (SpecMove)
\* The while loop of lines 321-340, one round of its body per step, started
\* where a pass reaches it.  While this scenario runs, previousNodes holds
\* the local array panes (the copy of previousNodes that the exit and enter
\* loops have worked on) and calls holds the calls of the loop so far.

\* Child lists of distinct children.
MoveLists == {l \in ListsOver(1..MaxMoveNodes, MaxMoveNodes) : NoRepeat(l)}

\* The orders of the children of list.
OrdersOf(list) ==
  {l \in MoveLists : Len(l) = Len(list)
                       /\ {l[i] : i \in DOMAIN l} = {list[i] : i \in DOMAIN list}}

\* Child lists in which the same element may occur more than once.
RepeatLists == ListsOver(1..2, MaxMoveNodes)

\* The pairs of a child list and the previousNodes its pass starts from: any
\* two orders of the same distinct children, and any list against the empty
\* previousNodes of a first pass.
MoveLoopInputs ==
  {pair \in MoveLists \X MoveLists : pair[2] \in OrdersOf(pair[1])}
    \cup {<<list, <<>> >> : list \in RepeatLists}

\* The state of the pass over list when it reaches the loop, the engine
\* holding the panes of previous (lines 272-319).
MoveLoopStart(list, previous) ==
  EnterLoop(
    ExitLoop([panes |-> previous, views |-> previous,
              items |-> [i \in DOMAIN previous |-> EngineItem(previous[i], previous[i])],
              heap |-> [id \in {previous[i] : i \in DOMAIN previous} |->
                          NewPaneView(GluePaneViewOptions(NoProps, DefaultProps))],
              calls |-> <<>>],
             ExitOf(list, previous), Len(previous) - 1),
    EnterOf(list, previous), 1, list, DefaultProps, EmptyMap)

InitMove ==
  /\ PaneIdle
  /\ SashIdle
  /\ layoutServiceSize = Num(200)
  /\ props = DefaultProps
  /\ phase = "mounted"
  /\ \E pair \in MoveLoopInputs :
       /\ nodes = pair[1]
       /\ previousNodes = MoveLoopStart(pair[1], pair[2]).panes
       /\ views = MoveLoopStart(pair[1], pair[2]).views
       /\ heap = MoveLoopStart(pair[1], pair[2]).heap
       /\ splitViewRef =
            [NoSplitView EXCEPT !.exists = TRUE,
                                !.items = MoveLoopStart(pair[1], pair[2]).items]
  /\ splitViewPropsRef = EmptyMap
  /\ splitViewViewRef = {nodes[i] : i \in DOMAIN nodes}
  /\ dimensionsInitialized = TRUE
  /\ event = Event("moveloop", -1, -1, FALSE)
  /\ calls = <<>>
  /\ hostCalls = <<>>

\* The state of the pass inside the loop.
MoveLoopState ==
  [panes |-> previousNodes, views |-> views, items |-> splitViewRef.items,
   heap |-> heap, calls |-> calls]

\* One round of the loop: !isEqual(nodes, panes), so the body runs.  Rounds
\* past the first Len(nodes) + 1 are not followed.
MoveLoopRound ==
  /\ event.type = "moveloop"
  /\ nodes # previousNodes
  /\ Len(calls) <= Len(nodes)
  /\ previousNodes' = MoveOne(MoveLoopState, nodes).panes
  /\ calls' = MoveOne(MoveLoopState, nodes).calls
  /\ splitViewRef' = [splitViewRef EXCEPT !.items = MoveOne(MoveLoopState, nodes).items]
  /\ UNCHANGED <<sashVars, paneVars, layoutServiceSize, props, phase, nodes,
                 splitViewPropsRef, splitViewViewRef, views, heap,
                 dimensionsInitialized, event, hostCalls>>

\* isEqual(nodes, panes): the loop is left.
MoveLoopExit ==
  /\ event.type = "moveloop"
  /\ nodes = previousNodes
  /\ event' = Event("moveloopexit", -1, -1, FALSE)
  /\ UNCHANGED <<sashVars, paneVars, layoutServiceSize, props, phase, nodes,
                 previousNodes, splitViewPropsRef, splitViewViewRef, views, heap,
                 splitViewRef, dimensionsInitialized, calls, hostCalls>>

NextMove ==
  \/ MoveLoopRound
  \/ MoveLoopExit

SpecMove == InitMove /\ [][NextMove]_vars

\* ------------------------------------------------ claims on Allotment (Spec)

\* The child nodes whose containers the engine holds, in the engine's order.
ClaimEngineOrder == [i \in DOMAIN splitViewRef.items |-> splitViewRef.items[i].container]

\* Some call of the last handler is the operation op.
ClaimCalled(op) == \E k \in DOMAIN calls : calls[k].op = op

\* C1: after every reconciliation pass the engine holds the panes of the
\* current children, in the order of the children.
T_C1_EngineOrderIsChildOrder ==
  event.pass => ClaimEngineOrder = nodes

\* C1 witness: a pass that removed nothing and added nothing, and moved a
\* pane of a component seeded by defaultSizes.
W_C1_ReorderPass ==
  /\ event.pass
  /\ event.type = "children"
  /\ props.defaultSizes.given
  /\ Len(nodes) = 2
  /\ ClaimCalled("moveView")
  /\ ~ ClaimCalled("addView")
  /\ ~ ClaimCalled("removeView")
  /\ ClaimEngineOrder = nodes

\* C5 (as claimed): every PaneView the component holds has
\* 0 <= minimumSize <= maximumSize.
CE_C5_BoundsOrdered ==
  \A i \in DOMAIN views :
    /\ NumLeq(Num(0), heap[views[i]].minimumSize)
    /\ NumLeq(heap[views[i]].minimumSize, heap[views[i]].maximumSize)

\* The extent along the layout axis that a resize event reported.
ClaimAxisExtent == IF props.vertical THEN event.b ELSE event.a

\* The one layout call a forwarded resize makes.
ClaimLayoutCalled ==
  /\ calls # <<>>
  /\ calls[1].op = "layout"
  /\ calls[1].size = Num(ClaimAxisExtent)

\* C6 (as claimed): a resize observation that reports an extent along the
\* layout axis other than the size last passed on makes the component call
\* the engine's layout with that extent.
CE_C6_NoResizeDropped ==
  (/\ event.type = "resize"
   /\ ClaimAxisExtent # 0
   /\ phase = "mounted") => ClaimLayoutCalled

\* C6 (amended): a resize observation with non-zero width and non-zero height
\* makes the component call the engine's layout, first, with the extent along
\* the layout axis; an observation with a zero width or height makes no
\* engine call.
T_C6_NonZeroResizeIsLaidOut ==
  event.type = "resize" =>
    IF event.a # 0 /\ event.b # 0
      THEN ClaimLayoutCalled /\ layoutServiceSize = Num(ClaimAxisExtent)
      ELSE calls = <<>>

\* C6 witness: a vertical component passed on the height of a 300 x 100
\* observation.
W_C6_VerticalResize ==
  /\ event = Event("resize", 300, 100, FALSE)
  /\ props.vertical
  /\ calls = <<Call("layout", -1, -1, Num(100), Len(splitViewRef.items))>>

\* C7 (as claimed): once the host has unmounted the component, dispose() has
\* been called on the engine the component created.  (Unmounting is the last
\* thing that happens to a component, so "eventually" is "by then".)
CE_C7_DisposedOnUnmount ==
  (phase = "unmounted" /\ splitViewRef.exists) => splitViewRef.disposed

\* C8 (as claimed): when a sash change hid or showed a pane and the host
\* supplies onVisibleChange, the component calls it once, with that pane's
\* index and new visibility, and it makes no call for any other pane.
CE_C8_VisibleChangeNotified ==
  (event.type = "sashchange" /\ event.b = 1) =>
    hostCalls =
      IF event.a >= 0
        THEN <<HostCall("onVisibleChange", event.a,
                        splitViewRef.items[event.a + 1].visible)>>
        ELSE <<>>

\* The preferred size of the pane the engine holds at index.
ClaimPanePreferredSize(index) ==
  IF index + 1 \in DOMAIN splitViewRef.items
    THEN preferredSizeOf(heap[splitViewRef.items[index + 1].view], layoutServiceSize)
    ELSE Undefined

CE_C10_PreferredSizeOnAdd ==
  (phase \in {"mounted", "error"} /\ dimensionsInitialized) =>
    \A i \in DOMAIN nodes :
      isPane(nodes[i]) =>
        \E k \in DOMAIN calls :
          /\ calls[k].op = "resizeView"
          /\ calls[k].index = i - 1
          /\ calls[k].size = DeclaredPaneProps(nodes[i]).preferredSize

\* ------------------------------------------------- claims on sash (SpecSash)

\* The smaller and the larger of two integers.
ClaimMin(a, b) == IF a <= b THEN a ELSE b
ClaimMax(a, b) == IF a >= b THEN a ELSE b

\* C11: after setSashSize(s) the interaction thickness (--sash-size) is s
\* clamped to [4, 20] in px, the hover thickness (--sash-hover-size) is s
\* clamped to [1, 8] in px, the global sash size is the clamped interaction
\* thickness, and the hover thickness is at most the interaction thickness.
T_C11_SashSizeClamped ==
  sash.called =>
    /\ sash.sashSizeProperty = Px(ClaimMax(4, ClaimMin(sash.sashSize, 20)))
    /\ sash.sashHoverSizeProperty = Px(ClaimMax(1, ClaimMin(sash.sashSize, 8)))
    /\ sash.globalSashSize = sash.sashSizeProperty.n
    /\ sash.sashHoverSizeProperty.n <= sash.sashSizeProperty.n

\* C11 witness: setSashSize(2) was called: the interaction thickness was
\* raised to 4 and the hover thickness stayed 2.
W_C11_SmallSashSize ==
  /\ sash.called
  /\ sash.sashSize = 2
  /\ sash.sashSizeProperty = Px(4)
  /\ sash.sashHoverSizeProperty = Px(2)
  /\ sash.globalSashSize = 4

\* ------------------------------------- claims on pane props (SpecUpdate)

\* The bounds of a PaneView.
ClaimBounds(view) == <<view.minimumSize, view.maximumSize>>

\* How many of the calls are layout() without a size.
ClaimLayoutCalls(cs) ==
  Cardinality({k \in DOMAIN cs : cs[k].op = "layout" /\ cs[k].size = Undefined})

\* The PaneView objects of before whose bounds differ in after.
ClaimBoundsChanged(before, after) ==
  {id \in DOMAIN before : ClaimBounds(before[id]) # ClaimBounds(after[id])}

T_C13_LayoutServiceFollowsResize ==
  [][/\ layoutServiceSize' # layoutServiceSize => event'.type = "resize"
     /\ (event'.type = "resize" /\ event'.a # 0 /\ event'.b # 0) =>
          /\ calls' # <<>>
          /\ calls'[1].op = "layout"
          /\ calls'[1].size = layoutServiceSize'
     /\ event'.pass =>
          /\ dimensionsInitialized'
          /\ layoutServiceSize' # LayoutServiceNew
          /\ \E width \in Widths \ {0}, height \in Heights \ {0} :
               layoutServiceSize' = Num(IF props.vertical THEN height ELSE width)]_vars

\* C13 witness: the first handled observation, 300 x 100 on a horizontal
\* component with two children, wrote 300 to the cell and ran the first pass,
\* which added both panes.
W_C13_FirstObservation ==
  /\ event = Event("resize", 300, 100, TRUE)
  /\ ~ props.vertical
  /\ layoutServiceSize = Num(300)
  /\ Len(calls) = 3
  /\ calls[1].op = "layout" /\ calls[1].size = Num(300)
  /\ calls[2].op = "addView" /\ calls[3].op = "addView"

\* ------------------------------------ more claims on PaneView (SpecPane)

\* C14 (as claimed): a pane whose strategy is Proportional holds a fraction
\* that is a number greater than 0 and at most 1.
CE_C14_FractionInRange ==
  pane.layoutStrategy.kind = "Proportion" =>
    /\ pane.layoutStrategy.p.t = "number"
    /\ pane.layoutStrategy.p.v > Num(0).v
    /\ pane.layoutStrategy.p.v <= Num(1).v

\* ------------------------------------------- claims on seeding (Spec)

\* The sum of a sequence of numbers.
RECURSIVE ClaimSum(_)
ClaimSum(sizes) == IF sizes = <<>> THEN 0 ELSE Head(sizes) + ClaimSum(Tail(sizes))

\* The children that the addView calls of cs added, given the child list.
ClaimAdded(cs, list) ==
  {list[cs[k].index + 1] : k \in {j \in DOMAIN cs : cs[j].op = "addView"}}

\* C15: the step that mounts the component passes a descriptor exactly when
\* defaultSizes is given with one size per child; the descriptor's size is
\* the sum of defaultSizes, its i-th view has the size defaultSizes[i] and
\* the container of the i-th child; without a descriptor the engine starts
\* empty.  The step that runs the first pass leaves the engine holding one
\* pane per child in child order; with a descriptor it issues no addView for
\* a seeded child, and without one it issues one addView for every child.
T_C15_SeedingPaths ==
  [][/\ (phase = "created" /\ phase' = "mounted") =>
          IF props.defaultSizes.given /\ Len(nodes) = Len(props.defaultSizes.sizes)
            THEN /\ splitViewRef'.descriptor.given
                 /\ splitViewRef'.descriptor.size = ClaimSum(props.defaultSizes.sizes)
                 /\ splitViewRef'.descriptor.sizes = props.defaultSizes.sizes
                 /\ [i \in DOMAIN splitViewRef'.items |->
                       splitViewRef'.items[i].container] = nodes
            ELSE /\ ~ splitViewRef'.descriptor.given
                 /\ splitViewRef'.items = <<>>
     /\ (phase = "mounted" /\ ~ dimensionsInitialized /\ event'.pass) =>
          /\ [i \in DOMAIN splitViewRef'.items |->
                splitViewRef'.items[i].container] = nodes'
          /\ IF splitViewRef.descriptor.given
               THEN ClaimAdded(calls', nodes')
                      \cap {previousNodes[i] : i \in DOMAIN previousNodes} = {}
               ELSE /\ ClaimAdded(calls', nodes') = {nodes'[i] : i \in DOMAIN nodes'}
                    /\ Cardinality({k \in DOMAIN calls' : calls'[k].op = "addView"})
                         = Len(nodes')]_vars

\* C15 witness: the first pass of a component seeded with two sizes for its
\* two children: the engine holds both, and the pass made no engine call
\* after the observer's layout.
W_C15_SeededFirstPass ==
  /\ event.type = "resize" /\ event.pass
  /\ splitViewRef.descriptor.given
  /\ splitViewRef.descriptor.size = 300
  /\ Len(nodes) = 2
  /\ ClaimEngineOrder = nodes
  /\ Len(calls) = 1

\* ------------------------------------------ claims on the pass (Spec)

\* C16 (as claimed): after every reconciliation pass the component's list
\* views is aligned with the engine: it is as long as the engine's pane
\* sequence and views[i] is the PaneView the engine holds at index i.
CE_C16_ViewsAligned ==
  event.pass =>
    /\ Len(views) = Len(splitViewRef.items)
    /\ \A i \in DOMAIN views : views[i] = splitViewRef.items[i].view

\* C17: every removeView, addView and moveView call was made with indices in
\* range for the panes the engine held at the call: removeView in
\* [0, length), addView in [0, length], moveView from and to in [0, length);
\* and the removeView calls of a handler have strictly descending indices.
T_C17_IndicesInRange ==
  \A k \in DOMAIN calls :
    /\ calls[k].op = "removeView" =>
         /\ calls[k].index >= 0 /\ calls[k].index < calls[k].len
         /\ \A j \in 1..(k - 1) :
              calls[j].op = "removeView" => calls[j].index > calls[k].index
    /\ calls[k].op = "addView" =>
         calls[k].index >= 0 /\ calls[k].index <= calls[k].len
    /\ calls[k].op = "moveView" =>
         /\ calls[k].index >= 0 /\ calls[k].index < calls[k].len
         /\ calls[k].to >= 0 /\ calls[k].to < calls[k].len

\* C17 witness: a pass that removed both panes, the one at index 1 first.
W_C17_TwoRemoved ==
  /\ event.pass
  /\ nodes = <<>>
  /\ Len(calls) = 2
  /\ calls[1] = Call("removeView", 1, -1, Undefined, 2)
  /\ calls[2] = Call("removeView", 0, -1, Undefined, 1)

\* ------------------------------------- claims on the two parsers (SpecPane)

\* The pane that the other way of declaring paneDeclared gives: the setter
\* used on the pane when it came from the constructor, the constructor when
\* the pane's preferred size was set.
ClaimOtherPane ==
  IF paneVia = "constructor"
    THEN SetPreferredSize(pane, paneDeclared)
    ELSE NewPaneView(OnlyPreferredSize(paneDeclared))

\* C19: for every declared value, the pane constructed with it and the pane
\* whose preferredSize was set to it hold the same strategy variant with the
\* same parameter, and their preferredSize is the same for every size of the
\* Layout Context; a preferredSize that was read is the one the other pane
\* returns.
T_C19_ParsersAgree ==
  /\ pane.layoutStrategy = ClaimOtherPane.layoutStrategy
  /\ \A n \in Extents :
       preferredSizeOf(pane, Num(n)) = preferredSizeOf(ClaimOtherPane, Num(n))
  /\ lastRead.read =>
       lastRead.value = preferredSizeOf(ClaimOtherPane, layoutServiceSize)

\* C19 witness: "5px" was set on a pane, its preferredSize was read, and the
\* constructor gives a pixel strategy with the same parameter.
W_C19_SetPxRead ==
  /\ paneVia = "setter"
  /\ paneDeclared = Str(<<"5", "p", "x">>)
  /\ lastRead.read
  /\ pane.layoutStrategy.kind = "Pixel"
  /\ ConstructorLayoutStrategy(paneDeclared) = pane.layoutStrategy

\* --------------------------------- claims on the reordering loop (SpecMove)

====
